---- MODULE Spec2Model ----
(***************************************************************************)
(* A model of FakeDCClient (internal/dockercompose/fake_client.go): the    *)
(* simulated docker-compose client.  Three subsystems share the client:    *)
(*   - the lifecycle calls Up / Down / Rm and their call histories,        *)
(*   - StreamLogs, one producer goroutine writing framed lines to a pipe,  *)
(*   - the event bus, SendEvent feeding the StreamEvents goroutines,       *)
(*   - Project, which derives the project name from WorkDir.               *)
(* Each subsystem has its own specification over the shared variables.     *)
(***************************************************************************)
EXTENDS Integers, Sequences, FiniteSets, TLC

(***************************************************************************)
(* Bounds of the model and the small input sets.                           *)
(***************************************************************************)
MaxCalls == 3

Services == {"web", "db"}

Projects == {"projA", "projB"}

Faults == {"e1", "e2"}

\* Go's nil error
NoError == "nil"

\* model.DockerComposeUpSpec values, identified by their Service field
UpSpecs == {[Service |-> s] : s \in Services}

\* the []model.DockerComposeUpSpec arguments handed to Rm
RmArgs == {<<>>, <<[Service |-> "web"]>>, <<[Service |-> "web"], [Service |-> "db"]>>}

VARIABLES
    UpCalls,        \* c.UpCalls   []UpCall
    DownCalls,      \* c.DownCalls []DownCall
    RmCalls,        \* c.RmCalls   []RmCall
    DownError,      \* c.DownError
    RmError,        \* c.RmError
    callLog,        \* what the caller did and saw: one entry per returned call
    RunLogOutput,   \* c.RunLogOutput: service -> its upstream channel
    upstreamLog,    \* per channel, the messages the test sent on it, in order
    ctxDone,        \* the ctx given to StreamLogs has been cancelled
    logService,     \* spec.Service of the StreamLogs call
    output,         \* the channel StreamLogs captured (NilChan: none configured)
    pc,             \* where the StreamLogs goroutine is
    pending,        \* the line the goroutine's writer.Write is offering
    lines,          \* the lines the reader has read from the pipe, in order
    closes,         \* how many times writer.Close has been called
    readerState,    \* the caller's end of the pipe
    eventJson,      \* c.eventJson: the ingestion queue, a channel of capacity 100
    sent,           \* the events SendEvent has accepted, in call order
    sendErr,        \* what the last SendEvent call returned
    subState,       \* per StreamEvents call: where its goroutine is
    subCtxDone,     \* per StreamEvents call: its ctx has been cancelled
    event,          \* per goroutine: the event it took from c.eventJson
    events,         \* per StreamEvents call: the channel it returned, capacity 10
    received,       \* per StreamEvents call: what its caller has read, in order
    eventsClosed,   \* per StreamEvents call: its channel has been closed
    panicked,       \* the event named by the panic that ended the process
    WorkDir,        \* c.WorkDir, a string: the sequence of its characters
    projectLog,     \* per returned Project call: the WorkDir it read, the name it set
    inFlight        \* per concurrent caller: the call it is in the middle of

lifecycleVars == <<UpCalls, DownCalls, RmCalls, DownError, RmError, callLog>>

logVars == <<RunLogOutput, upstreamLog, ctxDone, logService, output, pc, pending,
             lines, closes, readerState>>

eventVars == <<eventJson, sent, sendErr, subState, subCtxDone, event, events, received,
               eventsClosed, panicked>>

projectVars == <<WorkDir, projectLog>>

callerVars == <<inFlight>>

vars == <<lifecycleVars, logVars, eventVars, projectVars, callerVars>>

\* what the lifecycle calls, the log stream and the event bus each leave alone
notLifecycleVars == <<logVars, eventVars, projectVars, callerVars>>

notLogVars == <<lifecycleVars, eventVars, projectVars, callerVars>>

notEventVars == <<lifecycleVars, logVars, projectVars, callerVars>>

notProjectVars == <<lifecycleVars, logVars, eventVars, callerVars>>

\* concurrent callers of Up / Down / Rm change the histories and inFlight
notCallerVars == <<logVars, eventVars, projectVars>>

(***************************************************************************)
(* The call-history record types.                                          *)
(***************************************************************************)
UpCall(spec, shouldBuild) == [Spec |-> spec, ShouldBuild |-> shouldBuild]

DownCall(proj) == [Proj |-> proj]

RmCall(specs) == [Specs |-> specs]

\* the caller's view of one returned call: which method, the record its
\* arguments make, and the error it returned
Returned(op, call, ret) == [op |-> op, call |-> call, ret |-> ret]

(***************************************************************************)
(* NewFakeDockerComposeClient: empty histories, no injected fault.         *)
(***************************************************************************)
InitLifecycle ==
    /\ UpCalls = <<>>
    /\ DownCalls = <<>>
    /\ RmCalls = <<>>
    /\ DownError = NoError
    /\ RmError = NoError
    /\ callLog = <<>>

\* Mutant of Up: the history is reset to the latest record, not appended to.
Up_Overwrites(spec, shouldBuild) ==
    /\ Len(callLog) < MaxCalls
    /\ UpCalls' = <<UpCall(spec, shouldBuild)>>
    /\ callLog' = Append(callLog, Returned("Up", UpCall(spec, shouldBuild), NoError))
    /\ UNCHANGED <<DownCalls, RmCalls, DownError, RmError>>
    /\ UNCHANGED notLifecycleVars

(***************************************************************************)
(* Up: append the record, return nil.                                      *)
(***************************************************************************)
Up(spec, shouldBuild) ==
    /\ Len(callLog) < MaxCalls
    /\ UpCalls' = Append(UpCalls, UpCall(spec, shouldBuild))
    /\ callLog' = Append(callLog, Returned("Up", UpCall(spec, shouldBuild), NoError))
    /\ UNCHANGED <<DownCalls, RmCalls, DownError, RmError>>
    /\ UNCHANGED notLifecycleVars

\* Mutant of Down: the fault is checked before the record is appended, so a
\* failing Down is not recorded.
Down_FaultNotRecorded(proj) ==
    /\ Len(callLog) < MaxCalls
    /\ IF DownError # NoError
          THEN /\ callLog' = Append(callLog, Returned("Down", DownCall(proj), DownError))
               /\ UNCHANGED <<DownCalls, DownError>>
          ELSE /\ DownCalls' = Append(DownCalls, DownCall(proj))
               /\ callLog' = Append(callLog, Returned("Down", DownCall(proj), NoError))
               /\ DownError' = DownError
    /\ UNCHANGED <<UpCalls, RmCalls, RmError>>
    /\ UNCHANGED notLifecycleVars

\* Mutant of Down: a one-shot fault, cleared once it has been returned.
Down_OneShot(proj) ==
    /\ Len(callLog) < MaxCalls
    /\ DownCalls' = Append(DownCalls, DownCall(proj))
    /\ callLog' = Append(callLog, Returned("Down", DownCall(proj), DownError))
    /\ DownError' = NoError
    /\ UNCHANGED <<UpCalls, RmCalls, RmError>>
    /\ UNCHANGED notLifecycleVars

(***************************************************************************)
(* Down: append the record; with a fault set, store it back and return it. *)
(***************************************************************************)
Down(proj) ==
    /\ Len(callLog) < MaxCalls
    /\ DownCalls' = Append(DownCalls, DownCall(proj))
    /\ IF DownError # NoError
          THEN LET err == DownError IN
               /\ DownError' = err
               /\ callLog' = Append(callLog, Returned("Down", DownCall(proj), err))
          ELSE /\ DownError' = DownError
               /\ callLog' = Append(callLog, Returned("Down", DownCall(proj), NoError))
    /\ UNCHANGED <<UpCalls, RmCalls, RmError>>
    /\ UNCHANGED notLifecycleVars

\* Mutant of Rm: the body copied from Down still tests and returns DownError.
Rm_ReadsDownError(specs) ==
    /\ Len(callLog) < MaxCalls
    /\ RmCalls' = Append(RmCalls, RmCall(specs))
    /\ callLog' = Append(callLog, Returned("Rm", RmCall(specs), DownError))
    /\ UNCHANGED <<UpCalls, DownCalls, DownError, RmError>>
    /\ UNCHANGED notLifecycleVars

(***************************************************************************)
(* Rm: as Down, on RmCalls and RmError.                                    *)
(***************************************************************************)
Rm(specs) ==
    /\ Len(callLog) < MaxCalls
    /\ RmCalls' = Append(RmCalls, RmCall(specs))
    /\ IF RmError # NoError
          THEN LET err == RmError IN
               /\ RmError' = err
               /\ callLog' = Append(callLog, Returned("Rm", RmCall(specs), err))
          ELSE /\ RmError' = RmError
               /\ callLog' = Append(callLog, Returned("Rm", RmCall(specs), NoError))
    /\ UNCHANGED <<UpCalls, DownCalls, DownError>>
    /\ UNCHANGED notLifecycleVars

(***************************************************************************)
(* The test assigns the exported fault fields directly (nil clears).       *)
(***************************************************************************)
SetDownError(e) ==
    /\ e # DownError
    /\ DownError' = e
    /\ UNCHANGED <<UpCalls, DownCalls, RmCalls, RmError, callLog>>
    /\ UNCHANGED notLifecycleVars

SetRmError(e) ==
    /\ e # RmError
    /\ RmError' = e
    /\ UNCHANGED <<UpCalls, DownCalls, RmCalls, DownError, callLog>>
    /\ UNCHANGED notLifecycleVars

NextLifecycle ==
    \/ \E spec \in UpSpecs, shouldBuild \in BOOLEAN : Up(spec, shouldBuild)
    \/ \E proj \in Projects : Down(proj)
    \/ \E specs \in RmArgs : Rm(specs)
    \/ \E e \in Faults \cup {NoError} : SetDownError(e)
    \/ \E e \in Faults \cup {NoError} : SetRmError(e)

(***************************************************************************)
(* StreamLogs.  Strings are sequences of characters; a line written to the *)
(* pipe is a sequence of tokens (a literal, a name, a timestamp or a       *)
(* character).                                                             *)
(***************************************************************************)
MaxMsgs == 2

ChanCap == 2

\* the messages a test sends upstream: with trailing blanks, tabs and
\* newlines, and with a leading blank that has to stay
Messages == {<<"a">>, <<"b", " ">>, <<" ", "c", "\t", "\n">>}

\* the values time.Now().Format(time.RFC3339Nano) takes
Timestamps == {"t1", "t2"}

\* a nil channel: RunLogOutput has no entry for the service
NilChan == "nil"

\* unicode.IsSpace on the characters used
IsSpace(ch) == ch \in {" ", "\t", "\n", "\r"}

\* Mutant of TrimRightSpace: nothing is trimmed.
TrimRightSpace_KeepsAll(str) == str

RECURSIVE TrimRightSpace(_)
\* strings.TrimRightFunc(s, unicode.IsSpace)
TrimRightSpace(str) ==
    IF str = <<>> THEN <<>>
    ELSE IF IsSpace(str[Len(str)])
         THEN TrimRightSpace(SubSeq(str, 1, Len(str) - 1))
         ELSE str

\* fmt.Sprintf("Attaching to %s\n", spec.Service)
AttachLine(svc) == <<"Attaching to ", svc, "\n">>

\* fmt.Sprintf("%s %s\n", time.Now().Format(...), strings.TrimRightFunc(s, ...))
LogLine(ts, str) == <<ts, " ">> \o TrimRightSpace(str) \o <<"\n">>

\* fmt.Sprintf("%s exited with code 0\n", spec.Service)
ExitLine(svc) == <<svc, " exited with code 0", "\n">>

\* a fresh channel, as the test makes it
NewChan == [buf |-> <<>>, closed |-> FALSE]

\* the goroutine is inside writer.Write
WritePcs == {"writeAttach", "writeLine", "writeTrailer"}

\* where the goroutine goes when its Write returns without error
AfterWrite(at) ==
    CASE at = "writeAttach" -> "select"
      [] at = "writeLine" -> "select"
      [] at = "writeTrailer" -> "close"

(***************************************************************************)
(* NewFakeDockerComposeClient: an empty RunLogOutput map; no stream yet.   *)
(***************************************************************************)
InitLogs ==
    /\ RunLogOutput = <<>>
    /\ upstreamLog = <<>>
    /\ ctxDone = FALSE
    /\ logService = "none"
    /\ output = NilChan
    /\ pc = "idle"
    /\ pending = <<>>
    /\ lines = <<>>
    /\ closes = 0
    /\ readerState = "none"

\* total number of messages the test has sent upstream
RECURSIVE SentCount(_)
SentCount(svcs) ==
    IF svcs = {} THEN 0
    ELSE LET svc == CHOOSE x \in svcs : TRUE IN
         Len(upstreamLog[svc]) + SentCount(svcs \ {svc})

(***************************************************************************)
(* The test: configures a channel for a service, sends on it, closes it,   *)
(* and cancels the context.                                                *)
(***************************************************************************)
SetRunLogOutput(svc) ==
    /\ svc \notin DOMAIN RunLogOutput
    /\ RunLogOutput' = [x \in DOMAIN RunLogOutput \cup {svc} |->
                            IF x = svc THEN NewChan ELSE RunLogOutput[x]]
    /\ upstreamLog' = [x \in DOMAIN RunLogOutput \cup {svc} |->
                            IF x = svc THEN <<>> ELSE upstreamLog[x]]
    /\ UNCHANGED <<ctxDone, logService, output, pc, pending, lines, closes, readerState>>
    /\ UNCHANGED notLogVars

UpstreamSend(svc, msg) ==
    /\ svc \in DOMAIN RunLogOutput
    /\ ~RunLogOutput[svc].closed
    /\ Len(RunLogOutput[svc].buf) < ChanCap
    /\ SentCount(DOMAIN upstreamLog) < MaxMsgs
    /\ RunLogOutput' = [RunLogOutput EXCEPT ![svc].buf = Append(@, msg)]
    /\ upstreamLog' = [upstreamLog EXCEPT ![svc] = Append(@, msg)]
    /\ UNCHANGED <<ctxDone, logService, output, pc, pending, lines, closes, readerState>>
    /\ UNCHANGED notLogVars

UpstreamClose(svc) ==
    /\ svc \in DOMAIN RunLogOutput
    /\ ~RunLogOutput[svc].closed
    /\ RunLogOutput' = [RunLogOutput EXCEPT ![svc].closed = TRUE]
    /\ UNCHANGED <<upstreamLog, ctxDone, logService, output, pc, pending, lines, closes,
                   readerState>>
    /\ UNCHANGED notLogVars

Cancel ==
    /\ ~ctxDone
    /\ ctxDone' = TRUE
    /\ UNCHANGED <<RunLogOutput, upstreamLog, logService, output, pc, pending, lines,
                   closes, readerState>>
    /\ UNCHANGED notLogVars

(***************************************************************************)
(* StreamLogs: capture the service's channel, make the pipe, start the     *)
(* goroutine, which first writes the attaching marker.                     *)
(***************************************************************************)
StreamLogs(svc) ==
    /\ pc = "idle"
    /\ logService' = svc
    /\ output' = IF svc \in DOMAIN RunLogOutput THEN svc ELSE NilChan
    /\ pc' = "writeAttach"
    /\ pending' = AttachLine(svc)
    /\ readerState' = "reading"
    /\ UNCHANGED <<RunLogOutput, upstreamLog, ctxDone, lines, closes>>
    /\ UNCHANGED notLogVars

(***************************************************************************)
(* The pipe.  writer.Write blocks until the reader has taken the data      *)
(* (PipeRead) or the read end is closed, which makes Write fail: then      *)
(* require.NoError ends the goroutine (WriteFails).                        *)
(***************************************************************************)
PipeRead ==
    /\ pc \in WritePcs
    /\ readerState = "reading"
    /\ lines' = Append(lines, pending)
    /\ pending' = <<>>
    /\ pc' = AfterWrite(pc)
    /\ UNCHANGED <<RunLogOutput, upstreamLog, ctxDone, logService, output, closes,
                   readerState>>
    /\ UNCHANGED notLogVars

WriteFails ==
    /\ pc \in WritePcs
    /\ readerState = "closed"
    /\ pending' = <<>>
    /\ pc' = "failed"
    /\ UNCHANGED <<RunLogOutput, upstreamLog, ctxDone, logService, output, lines, closes,
                   readerState>>
    /\ UNCHANGED notLogVars

(***************************************************************************)
(* The select of the loop: any ready case may be taken.                    *)
(***************************************************************************)
\* Mutant of SelectDone: the cancellation case closes the writer itself, and
\* the code after the loop then closes it again.
SelectDone_ClosesWriter ==
    /\ pc = "select"
    /\ ctxDone
    /\ pc' = "writeTrailer"
    /\ pending' = ExitLine(logService)
    /\ closes' = closes + 1
    /\ UNCHANGED <<RunLogOutput, upstreamLog, ctxDone, logService, output, lines,
                   readerState>>
    /\ UNCHANGED notLogVars

\* case <-ctx.Done(): done = true; the loop ends and the trailer is written
SelectDone ==
    /\ pc = "select"
    /\ ctxDone
    /\ pc' = "writeTrailer"
    /\ pending' = ExitLine(logService)
    /\ UNCHANGED <<RunLogOutput, upstreamLog, ctxDone, logService, output, lines, closes,
                   readerState>>
    /\ UNCHANGED notLogVars

\* case s, ok := <-output with ok: format the line and write it
SelectRecv ==
    /\ pc = "select"
    /\ output # NilChan
    /\ RunLogOutput[output].buf # <<>>
    /\ \E ts \in Timestamps :
          pending' = LogLine(ts, Head(RunLogOutput[output].buf))
    /\ RunLogOutput' = [RunLogOutput EXCEPT ![output].buf = Tail(@)]
    /\ pc' = "writeLine"
    /\ UNCHANGED <<upstreamLog, ctxDone, logService, output, lines, closes, readerState>>
    /\ UNCHANGED notLogVars

\* case s, ok := <-output with !ok (closed and drained): done = true
SelectClosed ==
    /\ pc = "select"
    /\ output # NilChan
    /\ RunLogOutput[output].buf = <<>>
    /\ RunLogOutput[output].closed
    /\ pc' = "writeTrailer"
    /\ pending' = ExitLine(logService)
    /\ UNCHANGED <<RunLogOutput, upstreamLog, ctxDone, logService, output, lines, closes,
                   readerState>>
    /\ UNCHANGED notLogVars

\* writer.Close() after the trailer
CloseWriter ==
    /\ pc = "close"
    /\ closes' = closes + 1
    /\ pc' = "done"
    /\ UNCHANGED <<RunLogOutput, upstreamLog, ctxDone, logService, output, pending, lines,
                   readerState>>
    /\ UNCHANGED notLogVars

(***************************************************************************)
(* The caller's end: it may stop reading, close the reader, and sees EOF   *)
(* once the writer is closed.                                              *)
(***************************************************************************)
ReaderStop ==
    /\ readerState = "reading"
    /\ readerState' = "stopped"
    /\ UNCHANGED <<RunLogOutput, upstreamLog, ctxDone, logService, output, pc, pending,
                   lines, closes>>
    /\ UNCHANGED notLogVars

ReaderClose ==
    /\ readerState \in {"reading", "stopped"}
    /\ readerState' = "closed"
    /\ UNCHANGED <<RunLogOutput, upstreamLog, ctxDone, logService, output, pc, pending,
                   lines, closes>>
    /\ UNCHANGED notLogVars

ReaderEOF ==
    /\ readerState = "reading"
    /\ closes > 0
    /\ readerState' = "eof"
    /\ UNCHANGED <<RunLogOutput, upstreamLog, ctxDone, logService, output, pc, pending,
                   lines, closes>>
    /\ UNCHANGED notLogVars

\* the steps of the StreamLogs goroutine
ProducerStep == SelectDone \/ SelectRecv \/ SelectClosed \/ CloseWriter \/ WriteFails

NextLogs ==
    \/ \E svc \in Services : SetRunLogOutput(svc)
    \/ \E svc \in Services, msg \in Messages : UpstreamSend(svc, msg)
    \/ \E svc \in Services : UpstreamClose(svc)
    \/ Cancel
    \/ \E svc \in Services : StreamLogs(svc)
    \/ PipeRead
    \/ WriteFails
    \/ SelectDone
    \/ SelectRecv
    \/ SelectClosed
    \/ CloseWriter
    \/ ReaderStop
    \/ ReaderClose
    \/ ReaderEOF

(***************************************************************************)
(* The event bus: SendEvent puts the encoded event on c.eventJson; each    *)
(* StreamEvents call starts a goroutine that takes events from it and      *)
(* forwards them to the channel the call returned.                         *)
(***************************************************************************)
MaxSend == 7

\* sends in the runs that fill one subscriber's channel
MaxBurst == 11

\* sends in the runs that fill the ingestion queue
MaxFill == 101

EventJsonCap == 100

EventsCap == 10

\* the StreamEvents calls of a run
SubIds == {"s1", "s2"}

\* an Event json.Marshal cannot encode
BadEvent == [ID |-> 0, encodable |-> FALSE]

\* no event: the empty string, which encodes no Event
NoEvent == <<>>

\* the Event of the n-th accepted SendEvent call
EventNo(n) == [ID |-> n, encodable |-> TRUE]

\* json.Marshal(evt), then string(j)
Marshal(evt) ==
    IF ~evt.encodable
       THEN [err |-> "marshalError", json |-> <<>>]
       ELSE [err |-> NoError, json |-> <<"{", "ID", ":", evt.ID, "}">>]

(***************************************************************************)
(* NewFakeDockerComposeClient: an empty queue; no StreamEvents call yet.   *)
(***************************************************************************)
InitEvents ==
    /\ eventJson = <<>>
    /\ sent = <<>>
    /\ sendErr = NoError
    /\ subState = [s \in SubIds |-> "none"]
    /\ subCtxDone = [s \in SubIds |-> FALSE]
    /\ event = [s \in SubIds |-> NoEvent]
    /\ events = [s \in SubIds |-> <<>>]
    /\ received = [s \in SubIds |-> <<>>]
    /\ eventsClosed = [s \in SubIds |-> FALSE]
    /\ panicked = NoEvent

\* a panic in any goroutine ends the process
Running == panicked = NoEvent

\* Mutant of SendEvent: a send that does not wait: with the queue full the
\* event is dropped and nil returned.
SendEvent_DropsWhenFull(evt) ==
    /\ Running
    /\ LET m == Marshal(evt) IN
       IF m.err # NoError
          THEN /\ sendErr' = m.err
               /\ UNCHANGED <<eventJson, sent>>
          ELSE /\ eventJson' = IF Len(eventJson) < EventJsonCap
                                  THEN Append(eventJson, m.json) ELSE eventJson
               /\ sent' = Append(sent, m.json)
               /\ sendErr' = NoError
    /\ UNCHANGED <<subState, subCtxDone, event, events, received, panicked>>
    /\ UNCHANGED eventsClosed
    /\ UNCHANGED notEventVars

(***************************************************************************)
(* SendEvent: encode; on error return it; else send on c.eventJson, which  *)
(* blocks while the queue is full, and return nil.                         *)
(***************************************************************************)
SendEvent(evt) ==
    /\ Running
    /\ LET m == Marshal(evt) IN
       IF m.err # NoError
          THEN /\ sendErr' = m.err
               /\ UNCHANGED <<eventJson, sent>>
          ELSE /\ Len(eventJson) < EventJsonCap
               /\ eventJson' = Append(eventJson, m.json)
               /\ sent' = Append(sent, m.json)
               /\ sendErr' = NoError
    /\ UNCHANGED <<subState, subCtxDone, event, events, received, panicked>>
    /\ UNCHANGED eventsClosed
    /\ UNCHANGED notEventVars

(***************************************************************************)
(* StreamEvents: make the channel, start the goroutine, return the channel *)
(***************************************************************************)
StreamEvents(s) ==
    /\ Running
    /\ subState[s] = "none"
    /\ subState' = [subState EXCEPT ![s] = "select"]
    /\ UNCHANGED <<eventJson, sent, sendErr, subCtxDone, event, events, received, panicked>>
    /\ UNCHANGED eventsClosed
    /\ UNCHANGED notEventVars

\* outer select, case event := <-c.eventJson
TakeEvent(s) ==
    /\ Running
    /\ subState[s] = "select"
    /\ eventJson # <<>>
    /\ event' = [event EXCEPT ![s] = Head(eventJson)]
    /\ eventJson' = Tail(eventJson)
    /\ subState' = [subState EXCEPT ![s] = "forward"]
    /\ UNCHANGED <<sent, sendErr, subCtxDone, events, received, panicked>>
    /\ UNCHANGED eventsClosed
    /\ UNCHANGED notEventVars

\* Mutant of StopOnCancel: the returning goroutine drains c.eventJson.
StopOnCancel_DrainsQueue(s) ==
    /\ Running
    /\ subState[s] = "select"
    /\ subCtxDone[s]
    /\ subState' = [subState EXCEPT ![s] = "returned"]
    /\ eventJson' = <<>>
    /\ UNCHANGED <<sent, sendErr, subCtxDone, event, events, received, panicked>>
    /\ UNCHANGED eventsClosed
    /\ UNCHANGED notEventVars

\* outer select, case <-ctx.Done(): return
StopOnCancel(s) ==
    /\ Running
    /\ subState[s] = "select"
    /\ subCtxDone[s]
    /\ subState' = [subState EXCEPT ![s] = "returned"]
    /\ UNCHANGED <<eventJson, sent, sendErr, subCtxDone, event, events, received, panicked>>
    /\ UNCHANGED eventsClosed
    /\ UNCHANGED notEventVars

\* Mutant of ForwardEvent: a forwarded event is also put back on c.eventJson
\* (to offer it to the other subscribers), so it comes round again.
ForwardEvent_Requeues(s) ==
    /\ Running
    /\ subState[s] = "forward"
    /\ IF Len(events[s]) < EventsCap
          THEN /\ events' = [events EXCEPT ![s] = Append(@, event[s])]
               /\ eventJson' = Append(eventJson, event[s])
               /\ event' = [event EXCEPT ![s] = NoEvent]
               /\ subState' = [subState EXCEPT ![s] = "select"]
               /\ UNCHANGED panicked
          ELSE /\ panicked' = event[s]
               /\ UNCHANGED <<subState, event, events, eventJson>>
    /\ UNCHANGED <<sent, sendErr, subCtxDone, received>>
    /\ UNCHANGED eventsClosed
    /\ UNCHANGED notEventVars

\* Mutant of ForwardEvent: with no room the event is dropped and the loop
\* goes on.
ForwardEvent_DropsWhenFull(s) ==
    /\ Running
    /\ subState[s] = "forward"
    /\ IF Len(events[s]) < EventsCap
          THEN events' = [events EXCEPT ![s] = Append(@, event[s])]
          ELSE events' = events
    /\ event' = [event EXCEPT ![s] = NoEvent]
    /\ subState' = [subState EXCEPT ![s] = "select"]
    /\ UNCHANGED <<eventJson, sent, sendErr, subCtxDone, received, panicked>>
    /\ UNCHANGED eventsClosed
    /\ UNCHANGED notEventVars

\* Mutant of ForwardEvent: the room test is off by one, as with a channel
\* made one larger.
ForwardEvent_OffByOne(s) ==
    /\ Running
    /\ subState[s] = "forward"
    /\ IF Len(events[s]) <= EventsCap
          THEN /\ events' = [events EXCEPT ![s] = Append(@, event[s])]
               /\ event' = [event EXCEPT ![s] = NoEvent]
               /\ subState' = [subState EXCEPT ![s] = "select"]
               /\ UNCHANGED panicked
          ELSE /\ panicked' = event[s]
               /\ UNCHANGED <<subState, event, events>>
    /\ UNCHANGED <<eventJson, sent, sendErr, subCtxDone, received>>
    /\ UNCHANGED eventsClosed
    /\ UNCHANGED notEventVars

\* inner select: case events <- event when the channel has room, else the
\* default case, which panics naming the event
ForwardEvent(s) ==
    /\ Running
    /\ subState[s] = "forward"
    /\ IF Len(events[s]) < EventsCap
          THEN /\ events' = [events EXCEPT ![s] = Append(@, event[s])]
               /\ event' = [event EXCEPT ![s] = NoEvent]
               /\ subState' = [subState EXCEPT ![s] = "select"]
               /\ UNCHANGED panicked
          ELSE /\ panicked' = event[s]
               /\ UNCHANGED <<subState, event, events>>
    /\ UNCHANGED <<eventJson, sent, sendErr, subCtxDone, received>>
    /\ UNCHANGED eventsClosed
    /\ UNCHANGED notEventVars

(***************************************************************************)
(* The caller of StreamEvents: cancels its ctx, reads from the channel.    *)
(***************************************************************************)
CancelEvents(s) ==
    /\ Running
    /\ subState[s] # "none"
    /\ ~subCtxDone[s]
    /\ subCtxDone' = [subCtxDone EXCEPT ![s] = TRUE]
    /\ UNCHANGED <<eventJson, sent, sendErr, subState, event, events, received, panicked>>
    /\ UNCHANGED eventsClosed
    /\ UNCHANGED notEventVars

ReadEvent(s) ==
    /\ Running
    /\ subState[s] # "none"
    /\ events[s] # <<>>
    /\ received' = [received EXCEPT ![s] = Append(@, Head(events[s]))]
    /\ events' = [events EXCEPT ![s] = Tail(@)]
    /\ UNCHANGED <<eventJson, sent, sendErr, subState, subCtxDone, event, panicked>>
    /\ UNCHANGED eventsClosed
    /\ UNCHANGED notEventVars

NextEvents ==
    \/ Len(sent) < MaxSend /\ SendEvent(EventNo(Len(sent) + 1))
    \/ Len(sent) < MaxSend /\ SendEvent(BadEvent)
    \/ \E s \in SubIds : StreamEvents(s)
    \/ \E s \in SubIds : TakeEvent(s)
    \/ \E s \in SubIds : StopOnCancel(s)
    \/ \E s \in SubIds : ForwardEvent(s)
    \/ \E s \in SubIds : CancelEvents(s)
    \/ \E s \in SubIds : ReadEvent(s)

(***************************************************************************)
(* Project: the project name.  A string is the sequence of its characters. *)
(***************************************************************************)
MaxPathLen == 3

MaxProjectCalls == 2

\* the characters working directories are built from: an upper-case and a
\* lower-case letter, a digit, the two separators, a character outside the
\* pattern, and the path separator
PathChars == {"A", "b", "2", "_", "-", ".", "/"}

\* the directory of the example and the same directory inside a path
ExampleDirs ==
    { <<"M", "y", "-", "A", "p", "p", "_", "2">>,
      <<"/", "s", "/", "M", "y", "-", "A", "p", "p", "_", "2", "/">> }

\* the values the test gives c.WorkDir
WorkDirs ==
    UNION {[1..n -> PathChars] : n \in 0..MaxPathLen} \cup ExampleDirs

UpperCase ==
    <<"A", "B", "C", "D", "E", "F", "G", "H", "I", "J", "K", "L", "M",
      "N", "O", "P", "Q", "R", "S", "T", "U", "V", "W", "X", "Y", "Z">>

LowerCase ==
    <<"a", "b", "c", "d", "e", "f", "g", "h", "i", "j", "k", "l", "m",
      "n", "o", "p", "q", "r", "s", "t", "u", "v", "w", "x", "y", "z">>

Digits == {"0", "1", "2", "3", "4", "5", "6", "7", "8", "9"}

\* the string "fakedc"
DefaultName == <<"f", "a", "k", "e", "d", "c">>

RECURSIVE StripTrailingSlashes(_)
StripTrailingSlashes(path) ==
    IF Len(path) > 0 /\ path[Len(path)] = "/"
       THEN StripTrailingSlashes(SubSeq(path, 1, Len(path) - 1))
       ELSE path

RECURSIVE AfterLastSlash(_, _)
\* the part of path after its last "/" at or before position i
AfterLastSlash(path, i) ==
    IF i = 0 THEN path
    ELSE IF path[i] = "/" THEN SubSeq(path, i + 1, Len(path))
    ELSE AfterLastSlash(path, i - 1)

\* filepath.Base: "." for the empty path; trailing slashes are removed, then
\* everything up to the last slash; "/" if nothing is left
Base(path) ==
    IF path = <<>> THEN <<".">>
    ELSE LET stripped == StripTrailingSlashes(path)
             last == AfterLastSlash(stripped, Len(stripped))
         IN  IF last = <<>> THEN <<"/">> ELSE last

ToLowerChar(c) ==
    IF \E i \in DOMAIN UpperCase : UpperCase[i] = c
       THEN LowerCase[CHOOSE i \in DOMAIN UpperCase : UpperCase[i] = c]
       ELSE c

\* strings.ToLower
ToLower(name) == [i \in 1..Len(name) |-> ToLowerChar(name[i])]

\* the pattern [a-z0-9_-] matches the one character c
Matches(c) ==
    \/ \E i \in DOMAIN LowerCase : LowerCase[i] = c
    \/ c \in Digits
    \/ c \in {"_", "-"}

\* Mutant of FindAllString: a character outside the pattern is replaced by
\* "_", not dropped.
RECURSIVE FindAllString_ReplacesOthers(_)
FindAllString_ReplacesOthers(name) ==
    IF name = <<>> THEN <<>>
    ELSE <<IF Matches(Head(name)) THEN <<Head(name)>> ELSE <<"_">>>>
            \o FindAllString_ReplacesOthers(Tail(name))

RECURSIVE FindAllString(_)
\* r.FindAllString(name, -1): the matches of a one-character pattern, each a
\* string of one character, in order
FindAllString(name) ==
    IF name = <<>> THEN <<>>
    ELSE (IF Matches(Head(name)) THEN <<<<Head(name)>>>> ELSE <<>>)
            \o FindAllString(Tail(name))

RECURSIVE Join(_)
\* strings.Join(parts, "")
Join(parts) ==
    IF parts = <<>> THEN <<>> ELSE Head(parts) \o Join(Tail(parts))

RECURSIVE TrimLeft(_, _)
\* strings.TrimLeft(name, cutset)
TrimLeft(name, cutset) ==
    IF name # <<>> /\ Head(name) \in cutset
       THEN TrimLeft(Tail(name), cutset)
       ELSE name

\* Mutant of NormalizeProjectName: the leading separators are trimmed before
\* the other characters are dropped.
NormalizeProjectName_TrimsFirst(name) ==
    Join(FindAllString(TrimLeft(ToLower(name), {"_", "-"})))

\* the normalization of lines 181-184: lower-case, keep the matches of
\* [a-z0-9_-], trim leading "_" and "-"
NormalizeProjectName(name) ==
    TrimLeft(Join(FindAllString(ToLower(name))), {"_", "-"})

\* projectNameOpt: the value it gives opt.Name
projectNameOpt(workDir) ==
    IF workDir # <<>>
       THEN NormalizeProjectName(Base(workDir))
       ELSE DefaultName

InitProject ==
    /\ WorkDir = <<>>
    /\ projectLog = <<>>

(***************************************************************************)
(* Project: read c.WorkDir; loader.Load applies projectNameOpt.            *)
(***************************************************************************)
Project ==
    /\ Len(projectLog) < MaxProjectCalls
    /\ LET workDir == WorkDir IN
       projectLog' = Append(projectLog,
                            [workDir |-> workDir, name |-> projectNameOpt(workDir)])
    /\ UNCHANGED WorkDir
    /\ UNCHANGED notProjectVars

NextProject == Project

(***************************************************************************)
(* Up / Down / Rm called from several goroutines.  The client has no lock: *)
(* c.XCalls = append(c.XCalls, rec) reads the slice, writes rec into the   *)
(* slot after its end, and stores the longer slice, and another caller's   *)
(* read and store may come between.  Callers that read the same slice      *)
(* write the same slot when the backing array has room, so the record in   *)
(* the slot is that of whichever wrote last.                               *)
(***************************************************************************)
MaxRacingCalls == 2

Callers == {"g1", "g2"}

\* the calls a caller may make: the method and the record its arguments make
CallInputs ==
    {[op |-> "Up", call |-> UpCall(spec, b)] : spec \in UpSpecs, b \in BOOLEAN}
        \cup {[op |-> "Down", call |-> DownCall(proj)] : proj \in Projects}
        \cup {[op |-> "Rm", call |-> RmCall(specs)] : specs \in RmArgs}

InitCallers == inFlight = [g \in Callers |-> <<>>]

\* the history field method op appends to
History(op) ==
    IF op = "Up" THEN UpCalls ELSE IF op = "Down" THEN DownCalls ELSE RmCalls

\* the error method op returns: the fault field it reads, nil for Up
ErrorOf(op) ==
    IF op = "Down" THEN DownError ELSE IF op = "Rm" THEN RmError ELSE NoError

Busy == {g \in Callers : inFlight[g] # <<>>}

\* caller g enters the method and reads the slice it will append to
LoadHistory(g, in) ==
    /\ inFlight[g] = <<>>
    /\ Len(callLog) + Cardinality(Busy) < MaxRacingCalls
    /\ inFlight' = [inFlight EXCEPT
                       ![g] = <<[op |-> in.op, call |-> in.call, snap |-> History(in.op)]>>]
    /\ UNCHANGED lifecycleVars
    /\ UNCHANGED notCallerVars

\* the records that may be in the slot after snap when g stores: its own,
\* or that of a caller of the same method that read a slice of that length
SlotWriters(g) ==
    {inFlight[g][1].call} \cup
        {inFlight[h][1].call : h \in {k \in Busy \ {g} :
             /\ inFlight[k][1].op = inFlight[g][1].op
             /\ Len(inFlight[k][1].snap) = Len(inFlight[g][1].snap)}}

\* caller g stores the appended slice, reads the fault field and returns
StoreHistory(g) ==
    /\ inFlight[g] # <<>>
    /\ LET c == inFlight[g][1] IN
       /\ \E rec \in SlotWriters(g) :
             /\ UpCalls' = IF c.op = "Up" THEN Append(c.snap, rec) ELSE UpCalls
             /\ DownCalls' = IF c.op = "Down" THEN Append(c.snap, rec) ELSE DownCalls
             /\ RmCalls' = IF c.op = "Rm" THEN Append(c.snap, rec) ELSE RmCalls
       /\ callLog' = Append(callLog, Returned(c.op, c.call, ErrorOf(c.op)))
    /\ inFlight' = [inFlight EXCEPT ![g] = <<>>]
    /\ UNCHANGED <<DownError, RmError>>
    /\ UNCHANGED notCallerVars

NextConcurrent ==
    \/ \E g \in Callers, in \in CallInputs : LoadHistory(g, in)
    \/ \E g \in Callers : StoreHistory(g)

Init == InitLifecycle /\ InitLogs /\ InitEvents /\ InitProject /\ InitCallers

\* as Init, with c.WorkDir assigned by the test before the first call
InitWithWorkDir ==
    /\ InitLifecycle /\ InitLogs /\ InitEvents /\ InitCallers
    /\ WorkDir \in WorkDirs
    /\ projectLog = <<>>

Next == NextLifecycle

Spec == Init /\ [][Next]_vars

SpecLogs == Init /\ [][NextLogs]_vars

SpecEvents == Init /\ [][NextEvents]_vars

SpecProject == InitWithWorkDir /\ [][NextProject]_vars

SpecConcurrent == Init /\ [][NextConcurrent]_vars

\* One subscriber and a burst of sends long enough to fill its channel.
NextOverflow ==
    \/ Len(sent) < MaxBurst /\ SendEvent(EventNo(Len(sent) + 1))
    \/ Len(sent) < MaxBurst /\ SendEvent(BadEvent)
    \/ StreamEvents("s1")
    \/ TakeEvent("s1")
    \/ StopOnCancel("s1")
    \/ ForwardEvent("s1")
    \/ CancelEvents("s1")
    \/ ReadEvent("s1")

SpecOverflow == Init /\ [][NextOverflow]_vars

\* One subscriber whose caller does not read, and enough sends to fill the
\* ingestion queue.
NextQueueFull ==
    \/ Len(sent) < MaxFill /\ SendEvent(EventNo(Len(sent) + 1))
    \/ Len(sent) < MaxFill /\ SendEvent(BadEvent)
    \/ StreamEvents("s1")
    \/ TakeEvent("s1")
    \/ StopOnCancel("s1")
    \/ ForwardEvent("s1")
    \/ CancelEvents("s1")

SpecQueueFull == Init /\ [][NextQueueFull]_vars

\* The goroutine is scheduled whenever it can step; a reader that has not
\* stopped or closed keeps reading.  Nothing obliges the test to send, close
\* or cancel, nor the reader to go on reading.
FairSpecLogs ==
    /\ SpecLogs
    /\ WF_vars(ProducerStep)
    /\ WF_vars(PipeRead)
    /\ WF_vars(ReaderEOF)

(***************************************************************************)
(* Helpers over the caller's log.                                          *)
(***************************************************************************)
RECURSIVE CallsOf(_, _)
\* the records of the calls to method op, in call order
CallsOf(op, log) ==
    IF log = <<>> THEN <<>>
    ELSE LET rest == CallsOf(op, Tail(log)) IN
         IF Head(log).op = op THEN <<Head(log).call>> \o rest ELSE rest

\* this step is a returned call of method op
IsCall(op) ==
    /\ Len(callLog') = Len(callLog) + 1
    /\ callLog'[Len(callLog')].op = op

\* the entry the step's call added to the log
ThisCall == callLog'[Len(callLog')]

\* history h only grew at its end
Extends(h, hNext) ==
    /\ Len(hNext) >= Len(h)
    /\ \A i \in 1..Len(h) : hNext[i] = h[i]

(***************************************************************************)
(* C1: after any sequence of Up calls UpCalls holds exactly one record per *)
(* call, in call order, record i being the spec and shouldBuild flag of    *)
(* call i; no step changes or removes an earlier record.                   *)
(***************************************************************************)
C1_UpHistoryIsCallOrder ==
    /\ [](UpCalls = CallsOf("Up", callLog))
    /\ [][Extends(UpCalls, UpCalls')]_vars

\* two Up calls with different arguments and a Down between them
C1_Witness ==
    /\ Len(callLog) = 3
    /\ callLog[1].op = "Up" /\ callLog[2].op = "Down" /\ callLog[3].op = "Up"
    /\ Len(UpCalls) = 2
    /\ UpCalls[1] # UpCalls[2]

(***************************************************************************)
(* C2: every returned Up, Down or Rm call, returning nil or the injected   *)
(* fault, appends exactly one record to its own history and leaves the     *)
(* other two histories unchanged.                                          *)
(***************************************************************************)
C2_OneRecordPerCall ==
    [][ /\ IsCall("Up") =>
            /\ UpCalls' = Append(UpCalls, ThisCall.call)
            /\ UNCHANGED <<DownCalls, RmCalls>>
        /\ IsCall("Down") =>
            /\ DownCalls' = Append(DownCalls, ThisCall.call)
            /\ UNCHANGED <<UpCalls, RmCalls>>
        /\ IsCall("Rm") =>
            /\ RmCalls' = Append(RmCalls, ThisCall.call)
            /\ UNCHANGED <<UpCalls, DownCalls>>
        /\ callLog' = callLog => UNCHANGED <<UpCalls, DownCalls, RmCalls>>
      ]_vars

\* a Down and an Rm both returned an injected fault and both are recorded
C2_Witness ==
    /\ \E i \in 1..Len(callLog) : callLog[i].op = "Down" /\ callLog[i].ret \in Faults
    /\ \E i \in 1..Len(callLog) : callLog[i].op = "Rm" /\ callLog[i].ret \in Faults
    /\ Len(DownCalls) = 1
    /\ Len(RmCalls) = 1

(***************************************************************************)
(* C3: a Down call returns exactly the fault DownError holds (nil when it  *)
(* is nil) and leaves DownError as it was; Up and Rm leave it too, so a    *)
(* fault once set is returned by every later Down until the caller         *)
(* assigns the field again.                                                *)
(***************************************************************************)
C3_DownFaultSticky ==
    [][ /\ IsCall("Down") => (ThisCall.ret = DownError /\ DownError' = DownError)
        /\ (IsCall("Up") \/ IsCall("Rm")) => DownError' = DownError
      ]_vars

\* with the fault set once, three calls in a row: Down, another call, Down;
\* both Downs returned the fault that is still set
C3_Witness ==
    /\ Len(callLog) = 3
    /\ callLog[1].op = "Down"
    /\ callLog[2].op \in {"Up", "Rm"}
    /\ callLog[3].op = "Down"
    /\ DownError \in Faults
    /\ callLog[1].ret = DownError
    /\ callLog[3].ret = DownError

(***************************************************************************)
(* C4: Rm is sticky on its own fault: an Rm call returns exactly RmError   *)
(* and leaves both fault fields as they were; Down never changes RmError   *)
(* and returns DownError whatever RmError is; Up changes neither field.    *)
(***************************************************************************)
C4_RmFaultIndependent ==
    [][ /\ IsCall("Rm") =>
            /\ ThisCall.ret = RmError
            /\ UNCHANGED <<RmError, DownError>>
        /\ IsCall("Down") =>
            /\ ThisCall.ret = DownError
            /\ RmError' = RmError
        /\ IsCall("Up") => UNCHANGED <<RmError, DownError>>
      ]_vars

\* only RmError set: Rm returned the fault twice and Down returned nil
C4_Witness ==
    /\ RmError \in Faults
    /\ DownError = NoError
    /\ Len(callLog) = 3
    /\ callLog[1].op = "Rm" /\ callLog[1].ret = RmError
    /\ callLog[2].op = "Down" /\ callLog[2].ret = NoError
    /\ callLog[3].op = "Rm" /\ callLog[3].ret = RmError

\* the mirror case: only DownError set, Rm returned nil
C4_WitnessDownOnly ==
    /\ DownError \in Faults
    /\ RmError = NoError
    /\ \E i \in 1..Len(callLog) : callLog[i].op = "Rm" /\ callLog[i].ret = NoError
    /\ \E i \in 1..Len(callLog) : callLog[i].op = "Down" /\ callLog[i].ret = DownError

(***************************************************************************)
(* Helpers over the log stream.                                            *)
(***************************************************************************)
\* the stream's upstream channel has been closed
UpstreamClosed == output # NilChan /\ RunLogOutput[output].closed

\* nothing was ever sent on the stream's channel and it was never closed
NoUpstreamContent ==
    \/ output = NilChan
    \/ upstreamLog[output] = <<>> /\ ~RunLogOutput[output].closed

\* t is str without its trailing whitespace, said without TrimRightSpace:
\* a prefix of str that does not end in whitespace, all that follows it in
\* str being whitespace
IsTrimOf(t, str) ==
    /\ Len(t) <= Len(str)
    /\ t = SubSeq(str, 1, Len(t))
    /\ t = <<>> \/ ~IsSpace(t[Len(t)])
    /\ \A i \in (Len(t) + 1)..Len(str) : IsSpace(str[i])

\* line is "<timestamp> <msg trimmed>\n"
IsContentLineOf(line, msg) ==
    /\ Len(line) >= 3
    /\ line[1] \in Timestamps
    /\ line[2] = " "
    /\ line[Len(line)] = "\n"
    /\ IsTrimOf(SubSeq(line, 3, Len(line) - 1), msg)

(***************************************************************************)
(* C5: a stream that got no content before its cancellation yields exactly *)
(* one line, the attaching marker, and closes without the "exited with     *)
(* code" trailer.                                                          *)
(***************************************************************************)
C5_CancelledStreamHasNoTrailer ==
    (pc = "done" /\ ctxDone /\ NoUpstreamContent) =>
        lines = <<AttachLine(logService)>>

(***************************************************************************)
(* C6: with no cancellation, once upstream has delivered m1..mk and been   *)
(* closed, the stream has yielded the attaching marker, then one content   *)
(* line per message in upstream order, each the message with its trailing  *)
(* whitespace trimmed, then "<service> exited with code 0", and is closed. *)
(***************************************************************************)
C6_NaturalCompletionFraming ==
    (pc = "done" /\ ~ctxDone) =>
        /\ UpstreamClosed
        /\ Len(lines) = Len(upstreamLog[output]) + 2
        /\ lines[1] = AttachLine(logService)
        /\ \A i \in 1..Len(upstreamLog[output]) :
               IsContentLineOf(lines[i + 1], upstreamLog[output][i])
        /\ lines[Len(lines)] = ExitLine(logService)
        /\ closes = 1

\* "a" then "b " were delivered and the stream ended by itself: four lines
C6_Witness ==
    /\ pc = "done"
    /\ ~ctxDone
    /\ logService = "web"
    /\ upstreamLog[output] = << <<"a">>, <<"b", " ">> >>
    /\ Len(lines) = 4
    /\ lines[3][3] = "b"
    /\ Len(lines[3]) = 4
    /\ readerState = "eof"

(***************************************************************************)
(* C7: once the upstream channel is closed or the cancellation signal has  *)
(* fired, the stream's output is eventually closed, whatever the reader    *)
(* does.                                                                   *)
(***************************************************************************)
C7_StreamEventuallyCloses ==
    (pc # "idle" /\ (ctxDone \/ UpstreamClosed))
        ~> (closes > 0 \/ readerState = "closed")

(***************************************************************************)
(* C8: writer.Close is called at most once; a goroutine that ran to its    *)
(* end, by natural exit or by cancellation, has called it exactly once;    *)
(* and once it is closed no line is offered to or taken from the pipe.     *)
(***************************************************************************)
C8_ClosedExactlyOnce ==
    /\ [](closes <= 1 /\ (pc = "done" => closes = 1))
    /\ [][closes > 0 => (lines' = lines /\ pending' = <<>>)]_vars

\* the cancellation path ran to its end and the reader saw end of stream
C8_Witness ==
    /\ pc = "done"
    /\ ctxDone
    /\ ~UpstreamClosed
    /\ closes = 1
    /\ readerState = "eof"

\* the natural-exit path ran to its end
C8_WitnessNaturalExit ==
    /\ pc = "done"
    /\ ~ctxDone
    /\ UpstreamClosed
    /\ closes = 1

(***************************************************************************)
(* C9: from the moment the cancellation signal has fired the stream emits  *)
(* no further content line, even with upstream messages available.         *)
(***************************************************************************)
C9_NoContentAfterCancel ==
    [][ctxDone => ~(pc = "writeLine" /\ lines' = Append(lines, pending))]_vars

\* the same for the select alone: once cancelled, the goroutine takes no
\* further message from upstream
C9_NoReceiveAfterCancel ==
    [][ctxDone => ~(pc = "select" /\ pc' = "writeLine")]_vars

(***************************************************************************)
(* Helpers over the event bus.                                             *)
(***************************************************************************)
\* everything StreamEvents call s has delivered: what its caller has read,
\* then what still waits on the channel
DeliveredTo(s) == received[s] \o events[s]

\* no value occurs twice in seq
DuplicateFree(seq) ==
    \A i, j \in 1..Len(seq) : i # j => seq[i] # seq[j]

RECURSIVE IsSubsequence(_, _)
\* a can be had from b by leaving elements out, the order kept
IsSubsequence(a, b) ==
    IF a = <<>> THEN TRUE
    ELSE IF b = <<>> THEN FALSE
    ELSE IF Head(a) = Head(b) THEN IsSubsequence(Tail(a), Tail(b))
    ELSE IsSubsequence(a, Tail(b))

(***************************************************************************)
(* C10: for every StreamEvents subscriber, the events delivered to it are  *)
(* a duplicate-free subsequence of the events in SendEvent order.          *)
(***************************************************************************)
C10_DeliveryInSendOrder ==
    \A s \in SubIds :
        /\ DuplicateFree(DeliveredTo(s))
        /\ IsSubsequence(DeliveredTo(s), sent)

\* two subscribers share the queue: s1 has read the first and third events
\* sent and holds a later one on its channel, s2 has read the second
C10_Witness ==
    /\ Len(sent) >= 4
    /\ received["s1"] = <<sent[1], sent[3]>>
    /\ events["s1"] # <<>>
    /\ received["s2"] = <<sent[2]>>

\* a is the end of b
IsSuffix(a, b) ==
    /\ Len(a) <= Len(b)
    /\ a = SubSeq(b, Len(b) - Len(a) + 1, Len(b))

\* a is the beginning of b
IsPrefix(a, b) ==
    /\ Len(a) <= Len(b)
    /\ a = SubSeq(b, 1, Len(a))

\* the goroutine of StreamEvents call s is running and its ctx is not cancelled
Live(s) == subState[s] \in {"select", "forward"} /\ ~subCtxDone[s]

\* how often e occurs in seq
Occurrences(e, seq) == Cardinality({i \in 1..Len(seq) : seq[i] = e})

(***************************************************************************)
(* C11: with two or more uncancelled subscribers every enqueued event      *)
(* reaches the channel of each.  Stated where nothing is left to forward:  *)
(* the queue is empty and every goroutine waits at its outer select; then  *)
(* a subscriber that was delivered some event has been delivered every     *)
(* event sent after it, so what it was delivered is the end of the send    *)
(* order.                                                                  *)
(***************************************************************************)
C11_EveryLiveSubscriberGetsEveryEvent ==
    (/\ Running
     /\ eventJson = <<>>
     /\ \A s \in SubIds : subState[s] = "select" /\ ~subCtxDone[s])
    => \A s \in SubIds : DeliveredTo(s) = <<>> \/ IsSuffix(DeliveredTo(s), sent)

(***************************************************************************)
(* C12: when the goroutine forwards the event it took and the channel is   *)
(* full, it panics naming that event, leaving channel and queue as they    *)
(* are; it never waits for room; with room it appends the event and goes   *)
(* on; and a panic happens in no other way.                                *)
(***************************************************************************)
C12_FullChannelPanics ==
    /\ [](\A s \in SubIds :
            (Running /\ subState[s] = "forward") => ENABLED ForwardEvent(s))
    /\ [][\A s \in SubIds :
            (subState[s] = "forward" /\ (event'[s] # event[s] \/ panicked' # panicked)) =>
                IF Len(events[s]) = EventsCap
                   THEN /\ panicked' = event[s]
                        /\ panicked' # NoEvent
                        /\ UNCHANGED <<events, eventJson, received>>
                   ELSE /\ panicked' = panicked
                        /\ events'[s] = Append(events[s], event[s])
                        /\ subState'[s] = "select"]_vars
    /\ [][panicked' # panicked =>
            \E s \in SubIds : /\ subState[s] = "forward"
                              /\ Len(events[s]) = EventsCap
                              /\ panicked' = event[s]]_vars

\* the goroutine took an event with ten undelivered on the channel: panic
C12_Witness ==
    /\ panicked # NoEvent
    /\ Len(events["s1"]) = EventsCap
    /\ event["s1"] = panicked

(***************************************************************************)
(* C13: one subscriber whose caller reads nothing: its channel holds the   *)
(* first events sent, in send order, at most ten of them; a panic names    *)
(* the 11th event sent and finds exactly the first ten on the channel.     *)
(***************************************************************************)
C13_FirstTenThenOverflow ==
    received["s1"] = <<>> =>
        /\ IsPrefix(events["s1"], sent)
        /\ Len(events["s1"]) <= EventsCap
        /\ panicked # NoEvent =>
              /\ Len(sent) > EventsCap
              /\ events["s1"] = SubSeq(sent, 1, EventsCap)
              /\ panicked = sent[EventsCap + 1]

\* more than ten events sent, none read, and the panic has happened
C13_Witness ==
    /\ received["s1"] = <<>>
    /\ Len(sent) = EventsCap + 1
    /\ Len(events["s1"]) = EventsCap
    /\ panicked = sent[EventsCap + 1]

(***************************************************************************)
(* C14: once the ctx of a StreamEvents call is cancelled, no event is      *)
(* forwarded to that call's channel any more.                              *)
(***************************************************************************)
C14_NoForwardAfterCancel ==
    [][\A s \in SubIds : subCtxDone[s] => Len(events'[s]) <= Len(events[s])]_vars

\* the same for the outer select alone: once cancelled, the goroutine takes
\* no further event from the queue
C14_NoTakeAfterCancel ==
    [][\A s \in SubIds :
          subCtxDone[s] => ~(subState[s] = "select" /\ subState'[s] = "forward")]_vars

(***************************************************************************)
(* C15: after cancellation the channel StreamEvents returned is closed: a  *)
(* goroutine that has returned has closed it.                              *)
(***************************************************************************)
C15_ReturnedGoroutineClosedChannel ==
    \A s \in SubIds : subState[s] = "returned" => eventsClosed[s]

(***************************************************************************)
(* C18: SendEvent of an encodable event can go ahead exactly when the      *)
(* ingestion queue holds fewer than 100 events, subscriber or not; it then *)
(* appends the encoded event to the queue and returns nil.  With 100       *)
(* queued it waits until a goroutine has taken one.  SendEvent of an event *)
(* that cannot be encoded always returns, with the error, and enqueues     *)
(* nothing.                                                                *)
(***************************************************************************)
C18_SendBlocksOnlyWhenFull ==
    /\ [](Running =>
            /\ ENABLED SendEvent(EventNo(Len(sent) + 1))
                  <=> Len(eventJson) < EventJsonCap
            /\ ENABLED SendEvent(BadEvent))
    /\ [][sent' # sent =>
            /\ Len(eventJson) < EventJsonCap
            /\ Len(sent') = Len(sent) + 1
            /\ eventJson' = Append(eventJson, sent'[Len(sent')])
            /\ sendErr' = NoError]_vars
    /\ [][(sendErr' # sendErr /\ sendErr' # NoError) =>
            UNCHANGED <<eventJson, sent>>]_vars

\* 100 events filled the queue, the goroutine took one, the 101st send went
\* through and the queue is full again
C18_Witness ==
    /\ Len(sent) = EventJsonCap + 1
    /\ Len(eventJson) = EventJsonCap
    /\ sendErr = NoError

\* a send with no subscriber at all, and a rejected event after it
C18_WitnessNoSubscriber ==
    /\ \A s \in SubIds : subState[s] = "none"
    /\ Len(sent) = 2
    /\ eventJson = sent
    /\ sendErr # NoError

(***************************************************************************)
(* Where an accepted event is.                                             *)
(***************************************************************************)
RECURSIVE DeliveredCount(_, _)
\* how often e occurs on, or was read from, the channels of the calls subs
DeliveredCount(e, subs) ==
    IF subs = {} THEN 0
    ELSE LET s == CHOOSE x \in subs : TRUE IN
         Occurrences(e, DeliveredTo(s)) + DeliveredCount(e, subs \ {s})

\* the goroutines that have taken e and neither forwarded it nor panicked
HeldBy(e) == {s \in SubIds : event[s] = e /\ panicked # e}

\* the places the claim names: the queue, a delivery channel (or its
\* reader), the panic
NamedPlaces(e) ==
    Occurrences(e, eventJson) + DeliveredCount(e, SubIds)
        + (IF panicked = e THEN 1 ELSE 0)

(***************************************************************************)
(* C20 as claimed: in every reachable state each accepted event is in      *)
(* exactly one of: the ingestion queue, one subscriber's delivery channel  *)
(* (or read from it), the overflow panic.                                  *)
(***************************************************************************)
C20_EveryEventInANamedPlace ==
    \A i \in 1..Len(sent) : NamedPlaces(sent[i]) = 1

(***************************************************************************)
(* C20 as amended: each accepted event is in exactly one of those places   *)
(* or held by the one goroutine that has taken it from the queue and not   *)
(* yet run its inner select; the queue is always the end of the send       *)
(* order, and is all of it while no StreamEvents call has been made.       *)
(***************************************************************************)
C20_EveryEventInOnePlace ==
    /\ \A i \in 1..Len(sent) :
          NamedPlaces(sent[i]) + Cardinality(HeldBy(sent[i])) = 1
    /\ IsSuffix(eventJson, sent)
    /\ (\A s \in SubIds : subState[s] = "none") => eventJson = sent

\* events were sent before any subscriber; s1 was cancelled and returned
\* with nothing delivered; s2 then got every event, in send order
C20_Witness ==
    /\ Len(sent) >= 3
    /\ subState["s1"] = "returned"
    /\ DeliveredTo("s1") = <<>>
    /\ received["s2"] = sent

(***************************************************************************)
(* C16: the normalization is idempotent.  The name Project derives from a  *)
(* non-empty WorkDir is the normalization of its basename, and normalizing *)
(* that name again gives the same name.                                    *)
(***************************************************************************)
C16_NormalizationIdempotent ==
    \A i \in DOMAIN projectLog :
        LET d == projectLog[i].workDir
            name == projectLog[i].name
        IN  d # <<>> =>
               /\ name = NormalizeProjectName(Base(d))
               /\ NormalizeProjectName(name) = name

\* a call whose basename began with a separator and held a character that
\* is dropped and an upper-case letter: every stage changed the name
C16_Witness ==
    \E i \in DOMAIN projectLog :
        LET b == Base(projectLog[i].workDir) IN
        /\ b # <<>>
        /\ b[1] \in {"_", "-"}
        /\ \E k \in DOMAIN b : b[k] = "."
        /\ \E k \in DOMAIN b : b[k] = "A"
        /\ projectLog[i].name = <<"a">>

(***************************************************************************)
(* The project name, stated without the code's operators.                  *)
(***************************************************************************)
\* b is the final component of the path d: the slash-free stretch that ends
\* at the last character of d that is not a slash
IsFinalComponent(b, d) ==
    \E i \in 1..Len(d), j \in 1..Len(d) :
        /\ i <= j
        /\ b = SubSeq(d, i, j)
        /\ \A k \in i..j : d[k] # "/"
        /\ \A k \in (j + 1)..Len(d) : d[k] = "/"
        /\ i = 1 \/ d[i - 1] = "/"

IsSeparator(c) == c \in {"_", "-"}

IsAllowed(c) == c \in {LowerCase[i] : i \in DOMAIN LowerCase} \cup Digits \cup {"_", "-"}

\* name is kept without its leading run of separators
IsWithoutLeadingRun(name, kept) ==
    \E k \in 0..Len(kept) :
        /\ \A i \in 1..k : IsSeparator(kept[i])
        /\ k = Len(kept) \/ ~IsSeparator(kept[k + 1])
        /\ name = SubSeq(kept, k + 1, Len(kept))

\* the directory of the example, and the name it gives
MyApp2 == <<"M", "y", "-", "A", "p", "p", "_", "2">>

my_app_2 == <<"m", "y", "-", "a", "p", "p", "_", "2">>

(***************************************************************************)
(* C17: the name Project derives is a function of WorkDir alone.  For the  *)
(* empty WorkDir it is "fakedc", not the empty string.  Otherwise it is    *)
(* the final path component in lower case, the characters outside          *)
(* [a-z0-9_-] dropped, then the leading run of "_" and "-" removed (empty  *)
(* if the path has no component).  The basename My-App_2 gives my-app_2.   *)
(***************************************************************************)
C17_NameIsFunctionOfWorkDir ==
    /\ \A i \in DOMAIN projectLog :
          LET d == projectLog[i].workDir
              name == projectLog[i].name
          IN  /\ d = <<>> => name = DefaultName /\ name # <<>>
              /\ d # <<>> =>
                    /\ \A b \in {SubSeq(d, m, n) : m \in 1..Len(d), n \in 1..Len(d)} :
                          IsFinalComponent(b, d) =>
                             IsWithoutLeadingRun(name, SelectSeq(ToLower(b), IsAllowed))
                    /\ (\A k \in DOMAIN d : d[k] = "/") => name = <<>>
              /\ IsFinalComponent(MyApp2, d) => name = my_app_2
    /\ \A i \in DOMAIN projectLog, j \in DOMAIN projectLog :
          projectLog[i].workDir = projectLog[j].workDir
             => projectLog[i].name = projectLog[j].name

\* two calls for the example directory inside a path: both gave my-app_2
C17_Witness ==
    /\ Len(projectLog) = MaxProjectCalls
    /\ WorkDir # MyApp2
    /\ IsFinalComponent(MyApp2, WorkDir)
    /\ \A i \in DOMAIN projectLog : projectLog[i].name = my_app_2

\* the empty WorkDir gave the default name
C17_WitnessDefault ==
    /\ projectLog # <<>>
    /\ WorkDir = <<>>
    /\ projectLog[1].name = DefaultName

\* a dropped character in the middle of the component: the rest closes up
C17_WitnessDropped ==
    /\ projectLog # <<>>
    /\ WorkDir = <<"A", ".", "b">>
    /\ projectLog[1].name = <<"a", "b">>

(***************************************************************************)
(* C19: with several goroutines calling Up, Down or Rm on one client, once *)
(* every call has returned each history holds exactly one record per       *)
(* completed call: the records of the calls to that method, in some order. *)
(***************************************************************************)
IsPermutation(a, b) ==
    /\ Len(a) = Len(b)
    /\ \A i \in DOMAIN a : Occurrences(a[i], a) = Occurrences(a[i], b)

C19_ConcurrentAppendsSerialized ==
    Busy = {} =>
        /\ IsPermutation(UpCalls, CallsOf("Up", callLog))
        /\ IsPermutation(DownCalls, CallsOf("Down", callLog))
        /\ IsPermutation(RmCalls, CallsOf("Rm", callLog))

====
